---- MODULE Spec2Model ----
(***************************************************************************)
(* Model of teststreamlit.py: the Streamlit crop-yield form.               *)
(*                                                                         *)
(* Text is modelled as sequences of character tokens.  Non-ASCII and       *)
(* control characters have ASCII token names:                              *)
(*   "TAB" = U+0009, "NL" = U+000A, "nbsp" = U+00A0 (compatibility space), *)
(*   "a_acute" = U+00E1, "A_acute" = U+00C1, "acute" = U+0301 (combining). *)
(* Fractional quantities are fixed-point: pH and area are in tenths        *)
(* (pH 4.5 is 45, area 0.1 ha is 1).                                       *)
(***************************************************************************)
EXTENDS Integers, Sequences, FiniteSets, TLC

VARIABLES
    \* --- clean_crop_name applied to one name, then to its own result ---
    name, cleaned, recleaned, cleanPc,
    \* --- the seven number inputs and the issue list of is_input_valid ---
    N, P, K, pH, rainfall, temperature, area, issues, validPc,
    \* --- the rows of Crop_production.csv and the cached reference table ---
    csv, crop_info, tablePc,
    \* --- load_model: the file at model_path, the st.cache_resource entry,
    \* and counts of what the script runs of this process have done ---
    fileState, cache, fetches, loads, successes, runs, lastRun,
    \* --- the form: the loaded artifact, the crop selection, the messages
    \* of the last script run and what its Predict branch did ---
    model, selection_mode, selected_type, selected_crop, warnings, infos,
    pressed, shown, input_features, predictCalls, predictedBy, raised, formPc

cleanVars == <<name, cleaned, recleaned, cleanPc>>

inputVars == <<N, P, K, pH, rainfall, temperature, area>>

validVars == <<issues, validPc>>

tableVars == <<csv, crop_info, tablePc>>

loadVars == <<fileState, cache, fetches, loads, successes, runs, lastRun>>

selectionVars == <<selection_mode, selected_type, selected_crop>>

outputVars ==
    <<pressed, shown, input_features, predictCalls, predictedBy, raised>>

formVars == <<model, selectionVars, warnings, infos, outputVars, formPc>>

vars == <<cleanVars, inputVars, validVars, tableVars, loadVars, formVars>>

(***************************************************************************)
(* The parts of the state a specification does not exercise stay idle      *)
(***************************************************************************)
CleanIdle ==
    /\ name = <<>> /\ cleaned = <<>> /\ recleaned = <<>> /\ cleanPc = "off"

InputsIdle ==
    /\ N = 0 /\ P = 0 /\ K = 0 /\ pH = 0
    /\ rainfall = 0 /\ temperature = 0 /\ area = 0

ValidIdle == issues = <<>> /\ validPc = "off"

TableIdle == csv = <<>> /\ crop_info = <<>> /\ tablePc = "off"

LoadIdle ==
    /\ fileState = "good" /\ cache = "handle" /\ fetches = 0 /\ loads = 0
    /\ successes = 0 /\ runs = 0 /\ lastRun = "off"

FormIdle ==
    /\ model = [kind |-> "predictor", columns |-> <<>>]
    /\ selection_mode = "off" /\ selected_type = <<>> /\ selected_crop = <<>>
    /\ warnings = {} /\ infos = {}
    /\ pressed = FALSE /\ shown = <<>> /\ input_features = <<>>
    /\ predictCalls = 0 /\ predictedBy = "none" /\ raised = "none"
    /\ formPc = "off"

(***************************************************************************)
(* Bounds                                                                  *)
(***************************************************************************)
MaxLen == 3
MaxRows == 3
MaxRuns == 8

(***************************************************************************)
(* Characters                                                              *)
(***************************************************************************)
Alphabet == {"a", "A", " ", "TAB", "NL", "nbsp", "a_acute"}

\* str.isspace(), which str.strip() and str.split() use
IsSpace(c) == c \in {" ", "TAB", "NL", "nbsp"}

\* _PyUnicode_IsCased: letters are cased, combining marks are not
IsCased(c) == c \in {"a", "A", "b", "B", "c", "C", "a_acute", "A_acute"}

\* _PyUnicode_ToTitleFull on one character
ToTitle(c) ==
    CASE c = "a" -> "A"
      [] c = "b" -> "B"
      [] c = "c" -> "C"
      [] c = "a_acute" -> "A_acute"
      [] OTHER -> c

\* lower-casing of one character
ToLower(c) ==
    CASE c = "A" -> "a"
      [] c = "B" -> "b"
      [] c = "C" -> "c"
      [] c = "A_acute" -> "a_acute"
      [] OTHER -> c

\* NFKD decomposition of one character
Decompose(c) ==
    CASE c = "a_acute" -> <<"a", "acute">>
      [] c = "A_acute" -> <<"A", "acute">>
      [] c = "nbsp" -> <<" ">>
      [] OTHER -> <<c>>

\* Unicode code point, the order Python compares strings by
CodePoint(c) ==
    CASE c = "TAB" -> 9
      [] c = "NL" -> 10
      [] c = " " -> 32
      [] c = "A" -> 65
      [] c = "B" -> 66
      [] c = "C" -> 67
      [] c = "a" -> 97
      [] c = "b" -> 98
      [] c = "c" -> 99
      [] c = "nbsp" -> 160
      [] c = "A_acute" -> 193
      [] c = "a_acute" -> 225
      [] c = "acute" -> 769
      [] OTHER -> 0

(***************************************************************************)
(* clean_crop_name                                                         *)
(***************************************************************************)
RECURSIVE NFKD(_)
\* unicodedata.normalize("NFKD", name)
NFKD(s) == IF s = <<>> THEN <<>> ELSE Decompose(Head(s)) \o NFKD(Tail(s))

RECURSIVE LStrip(_)
LStrip(s) == IF s # <<>> /\ IsSpace(Head(s)) THEN LStrip(Tail(s)) ELSE s

RECURSIVE RStrip(_)
RStrip(s) ==
    IF s # <<>> /\ IsSpace(s[Len(s)]) THEN RStrip(SubSeq(s, 1, Len(s) - 1)) ELSE s

\* name.strip()
Strip(s) == RStrip(LStrip(s))

RECURSIVE Remove(_, _)
\* name.replace(c, "")
Remove(s, c) ==
    IF s = <<>> THEN <<>>
    ELSE IF Head(s) = c THEN Remove(Tail(s), c)
    ELSE <<Head(s)>> \o Remove(Tail(s), c)

RECURSIVE Split(_, _)
\* name.split(): the maximal runs of non-space characters; cur is the run
\* being read
Split(s, cur) ==
    IF s = <<>> THEN (IF cur = <<>> THEN <<>> ELSE <<cur>>)
    ELSE IF IsSpace(Head(s))
         THEN (IF cur = <<>> THEN <<>> ELSE <<cur>>) \o Split(Tail(s), <<>>)
         ELSE Split(Tail(s), Append(cur, Head(s)))

RECURSIVE Join(_)
\* " ".join(words)
Join(words) ==
    IF words = <<>> THEN <<>>
    ELSE IF Len(words) = 1 THEN words[1]
    ELSE words[1] \o <<" ">> \o Join(Tail(words))

RECURSIVE TitleFrom(_, _)
\* str.title(): a character is title-cased when the previous character is not
\* cased and lower-cased when it is
TitleFrom(s, previous_is_cased) ==
    IF s = <<>> THEN <<>>
    ELSE <<IF previous_is_cased THEN ToLower(Head(s)) ELSE ToTitle(Head(s))>>
         \o TitleFrom(Tail(s), IsCased(Head(s)))

Title(s) == TitleFrom(s, FALSE)

\* the slip of title-casing the raw text before it is decomposed
clean_crop_name_TitleFirst(s) ==
    Join(Split(Remove(Remove(Strip(NFKD(Title(s))), "NL"), "TAB"), <<>>))

clean_crop_name(s) ==
    Title(Join(Split(Remove(Remove(Strip(NFKD(s)), "NL"), "TAB"), <<>>)))

(***************************************************************************)
(* is_input_valid and the advisory range checks                            *)
(***************************************************************************)
\* the issue strings of is_input_valid, by the field group they report
TempLow == "Temperature is too low for any crop to grow."
TempHigh == "Temperature is extremely high and may kill crops."
PhOut == "Soil pH is beyond survivable range for most crops."
RainLow == "Rainfall is far too low - drought likely."
RainHigh == "Rainfall is excessive - likely to cause flooding."
NutrientsLow == "One or more nutrients (N, P, K) are critically low."
AreaSmall == "Area is too small to produce measurable yield."

\* the gate with the lower temperature bound taken inclusively
is_input_valid_TempInclusive(n, p, k, ph, rain, temp, ar) ==
    (IF temp <= 10 THEN <<TempLow>> ELSE IF temp > 45 THEN <<TempHigh>> ELSE <<>>)
    \o (IF ph < 45 \/ ph > 90 THEN <<PhOut>> ELSE <<>>)
    \o (IF rain < 50 THEN <<RainLow>> ELSE IF rain > 2500 THEN <<RainHigh>> ELSE <<>>)
    \o (IF n < 10 \/ p < 5 \/ k < 5 THEN <<NutrientsLow>> ELSE <<>>)
    \o (IF ar < 1 THEN <<AreaSmall>> ELSE <<>>)

\* is_input_valid(N, P, K, pH, rainfall, temperature, area); pH and area in
\* tenths
is_input_valid(n, p, k, ph, rain, temp, ar) ==
    (IF temp < 10 THEN <<TempLow>> ELSE IF temp > 45 THEN <<TempHigh>> ELSE <<>>)
    \o (IF ph < 45 \/ ph > 90 THEN <<PhOut>> ELSE <<>>)
    \o (IF rain < 50 THEN <<RainLow>> ELSE IF rain > 2500 THEN <<RainHigh>> ELSE <<>>)
    \o (IF n < 10 \/ p < 5 \/ k < 5 THEN <<NutrientsLow>> ELSE <<>>)
    \o (IF ar < 1 THEN <<AreaSmall>> ELSE <<>>)

(***************************************************************************)
(* SpecValid: is_input_valid as a function of any seven numbers            *)
(***************************************************************************)
\* arguments on both sides of every threshold of the gate, not limited to
\* what the number widgets admit
GateN == {0, 9, 10, 70}
GateP == {0, 4, 5, 40}
GateK == {0, 4, 5, 40}
GatePH == {30, 44, 45, 65, 90, 91}
GateRainfall == {0, 49, 50, 700, 2500, 2501}
GateTemperature == {5, 9, 10, 26, 45, 46}
GateArea == {0, 1, 10000}

InitValid ==
    /\ N \in GateN /\ P \in GateP /\ K \in GateK /\ pH \in GatePH
    /\ rainfall \in GateRainfall /\ temperature \in GateTemperature
    /\ area \in GateArea
    /\ issues = <<>>
    /\ validPc = "args"
    /\ CleanIdle
    /\ TableIdle
    /\ LoadIdle
    /\ FormIdle

Validate ==
    /\ validPc = "args"
    /\ issues' = is_input_valid(N, P, K, pH, rainfall, temperature, area)
    /\ validPc' = "returned"
    /\ UNCHANGED <<cleanVars, inputVars, tableVars, loadVars, formVars>>

NextValid == Validate

SpecValid == InitValid /\ [][NextValid]_vars

\* the group of fields an issue reports, in the order the gate tests them
IssueGroup(i) ==
    CASE i \in {TempLow, TempHigh} -> 1
      [] i = PhOut -> 2
      [] i \in {RainLow, RainHigh} -> 3
      [] i = NutrientsLow -> 4
      [] i = AreaSmall -> 5
      [] OTHER -> 0

Reported(i) == \E x \in 1..Len(issues) : issues[x] = i

\* C4: is_input_valid returns the empty list exactly for inputs inside every
\* gate threshold, and otherwise one issue per violated group in the order
\* temperature, pH, rainfall, nutrients, area; the nominal input has no
\* issue and the nominal input at temperature 5 has the single temperature
\* issue
C4_GateExact ==
    validPc = "returned" =>
        /\ issues = <<>> <=>
              /\ 10 <= temperature /\ temperature <= 45
              /\ 45 <= pH /\ pH <= 90
              /\ 50 <= rainfall /\ rainfall <= 2500
              /\ N >= 10 /\ P >= 5 /\ K >= 5
              /\ area >= 1
        /\ Len(issues) <= 5
        /\ \A x \in 1..Len(issues) : IssueGroup(issues[x]) \in 1..5
        /\ \A x, y \in 1..Len(issues) :
              x < y => IssueGroup(issues[x]) < IssueGroup(issues[y])
        /\ Reported(TempLow) <=> temperature < 10
        /\ Reported(TempHigh) <=> temperature > 45
        /\ Reported(PhOut) <=> (pH < 45 \/ pH > 90)
        /\ Reported(RainLow) <=> rainfall < 50
        /\ Reported(RainHigh) <=> rainfall > 2500
        /\ Reported(NutrientsLow) <=> (N < 10 \/ P < 5 \/ K < 5)
        /\ Reported(AreaSmall) <=> area < 1
        /\ (/\ N = 70 /\ P = 40 /\ K = 40 /\ pH = 65 /\ rainfall = 700
            /\ area = 10000)
           => /\ temperature = 26 => issues = <<>>
              /\ temperature = 5 => issues = <<TempLow>>

\* the gate has returned all five issues for an input violating every group
C4_Witness ==
    /\ validPc = "returned"
    /\ temperature = 46 /\ pH = 91 /\ rainfall = 49 /\ K = 4 /\ area = 0
    /\ issues = <<TempHigh, PhOut, RainLow, NutrientsLow, AreaSmall>>

(***************************************************************************)
(* load_crop_info                                                          *)
(***************************************************************************)
RECURSIVE Lower(_)
\* str.lower()
Lower(s) == IF s = <<>> THEN <<>> ELSE <<ToLower(Head(s))>> \o Lower(Tail(s))

RECURSIVE StrLess(_, _)
\* Python's a < b on strings: by code point, a proper prefix first
StrLess(a, b) ==
    IF b = <<>> THEN FALSE
    ELSE IF a = <<>> THEN TRUE
    ELSE IF Head(a) # Head(b) THEN CodePoint(Head(a)) < CodePoint(Head(b))
    ELSE StrLess(Tail(a), Tail(b))

RECURSIVE NormaliseRows(_)
\* df["Crop"].apply(clean_crop_name) and
\* df["Crop_Type"].astype(str).str.strip().str.lower()
NormaliseRows(rows) ==
    IF rows = <<>> THEN <<>>
    ELSE <<[Crop |-> clean_crop_name(Head(rows).Crop),
            Crop_Type |-> Lower(Strip(Head(rows).Crop_Type))]>>
         \o NormaliseRows(Tail(rows))

RECURSIVE DropDuplicatesFrom(_, _)
\* df.drop_duplicates(subset=["Crop"]): a row is kept unless an earlier row
\* has its crop name; seen holds the names of the rows read so far
DropDuplicatesFrom(rows, seen) ==
    IF rows = <<>> THEN <<>>
    ELSE IF Head(rows).Crop \in seen
         THEN DropDuplicatesFrom(Tail(rows), seen)
         ELSE <<Head(rows)>>
              \o DropDuplicatesFrom(Tail(rows), seen \cup {Head(rows).Crop})

RECURSIVE DropDuplicatesLast(_)
\* drop_duplicates keeping the last row of each crop instead of the first
DropDuplicatesLast(rows) ==
    IF rows = <<>> THEN <<>>
    ELSE IF \E x \in 2..Len(rows) : rows[x].Crop = Head(rows).Crop
         THEN DropDuplicatesLast(Tail(rows))
         ELSE <<Head(rows)>> \o DropDuplicatesLast(Tail(rows))

DropDuplicates(rows) == DropDuplicatesFrom(rows, {})

RECURSIVE InsertByCrop(_, _)
InsertByCrop(r, sorted) ==
    IF sorted = <<>> THEN <<r>>
    ELSE IF StrLess(r.Crop, Head(sorted).Crop) THEN <<r>> \o sorted
    ELSE <<Head(sorted)>> \o InsertByCrop(r, Tail(sorted))

RECURSIVE SortByCrop(_)
\* df.sort_values("Crop").reset_index(drop=True)
SortByCrop(rows) ==
    IF rows = <<>> THEN <<>>
    ELSE InsertByCrop(Head(rows), SortByCrop(Tail(rows)))

\* load_crop_info() on the rows of the file
load_crop_info(rows) == SortByCrop(DropDuplicates(NormaliseRows(rows)))

\* the Crop and Crop_Type cells the file's rows are drawn from
RawCrops == {<<"a">>, <<"A", " ">>, <<"b">>, <<"b", "NL", "a">>, <<"a_acute">>}
RawTypes == {<<"c">>, <<" ", "C">>, <<"b">>}
RawRows == [Crop : RawCrops, Crop_Type : RawTypes]

CsvFiles(n) == UNION {[1..k -> RawRows] : k \in 0..n}

(***************************************************************************)
(* SpecTable: load_crop_info on any file of up to MaxRows rows             *)
(***************************************************************************)
InitTable ==
    /\ csv \in CsvFiles(MaxRows)
    /\ crop_info = <<>>
    /\ tablePc = "file"
    /\ CleanIdle
    /\ InputsIdle
    /\ ValidIdle
    /\ LoadIdle
    /\ FormIdle

LoadCropInfo ==
    /\ tablePc = "file"
    /\ crop_info' = load_crop_info(csv)
    /\ tablePc' = "loaded"
    /\ UNCHANGED <<csv, cleanVars, inputVars, validVars, loadVars, formVars>>

NextTable == LoadCropInfo

SpecTable == InitTable /\ [][NextTable]_vars

\* the first row of the file, in row order, whose cleaned name is c
FirstRowOf(c) ==
    CHOOSE x \in 1..Len(csv) :
        /\ clean_crop_name(csv[x].Crop) = c
        /\ \A y \in 1..(x - 1) : clean_crop_name(csv[y].Crop) # c

\* C5: the loaded table has no two records with the same crop name, is
\* sorted ascending by crop name, holds exactly the distinct cleaned names of
\* the file, and gives each crop the normalised type of its first row
C5_TableCanonical ==
    tablePc = "loaded" =>
        /\ \A x, y \in 1..Len(crop_info) :
              x < y => StrLess(crop_info[x].Crop, crop_info[y].Crop)
        /\ {crop_info[x].Crop : x \in 1..Len(crop_info)}
              = {clean_crop_name(csv[x].Crop) : x \in 1..Len(csv)}
        /\ \A x \in 1..Len(crop_info) :
              crop_info[x].Crop_Type
                 = Lower(Strip(csv[FirstRowOf(crop_info[x].Crop)].Crop_Type))

\* a file whose rows are out of order and repeat a crop under another type
\* has been loaded
C5_Witness ==
    /\ tablePc = "loaded"
    /\ Len(csv) = 3
    /\ csv[1] = [Crop |-> <<"b">>, Crop_Type |-> <<"b">>]
    /\ csv[2] = [Crop |-> <<"a">>, Crop_Type |-> <<" ", "C">>]
    /\ csv[3] = [Crop |-> <<"A", " ">>, Crop_Type |-> <<"b">>]
    /\ crop_info = <<[Crop |-> <<"A">>, Crop_Type |-> <<"c">>],
                     [Crop |-> <<"B">>, Crop_Type |-> <<"b">>]>>

(***************************************************************************)
(* load_model under st.cache_resource                                      *)
(***************************************************************************)
\* what urllib.request.urlretrieve can do: write the whole artifact, write
\* a complete response that is not the artifact, fail before the file is
\* opened, or fail after part of it is written
FetchOutcomes == {"artifact", "garbage", "failed_no_file", "failed_partial"}

\* the file at model_path after urlretrieve
FileAfterFetch(outcome) ==
    CASE outcome = "artifact" -> "good"
      [] outcome = "failed_no_file" -> "absent"
      [] OTHER -> "corrupt"

FetchRaises(outcome) == outcome \in {"failed_no_file", "failed_partial"}

\* load_model without the os.path.exists test: every execution fetches
load_model_AlwaysFetch(file, outcome) ==
    IF FetchRaises(outcome)
    THEN [file |-> FileAfterFetch(outcome), fetched |-> TRUE,
          loaded |-> FALSE, result |-> "fetch_failed"]
    ELSE [file |-> FileAfterFetch(outcome), fetched |-> TRUE,
          loaded |-> TRUE,
          result |-> IF FileAfterFetch(outcome) = "good"
                     THEN "loaded" ELSE "load_failed"]

\* one execution of the body of load_model with the file at model_path in
\* state file and the fetch, if made, ending in outcome: the file afterwards,
\* whether urlretrieve and joblib.load were called, and how the body ended
load_model(file, outcome) ==
    IF file = "absent"
    THEN IF FetchRaises(outcome)
         THEN [file |-> FileAfterFetch(outcome), fetched |-> TRUE,
               loaded |-> FALSE, result |-> "fetch_failed"]
         ELSE [file |-> FileAfterFetch(outcome), fetched |-> TRUE,
               loaded |-> TRUE,
               result |-> IF FileAfterFetch(outcome) = "good"
                          THEN "loaded" ELSE "load_failed"]
    ELSE [file |-> file, fetched |-> FALSE, loaded |-> TRUE,
          result |-> IF file = "good" THEN "loaded" ELSE "load_failed"]

(***************************************************************************)
(* SpecLoad: the script runs of one process, each calling load_model()     *)
(***************************************************************************)
InitLoad ==
    /\ fileState \in {"absent", "good", "corrupt"}
    /\ cache = "empty"
    /\ fetches = 0 /\ loads = 0 /\ successes = 0 /\ runs = 0
    /\ lastRun = "none"
    /\ CleanIdle
    /\ InputsIdle
    /\ ValidIdle
    /\ TableIdle
    /\ FormIdle

\* a script run whose load_model() finds the cached handle: the body is not
\* executed
RunCached ==
    /\ runs < MaxRuns
    /\ cache = "handle"
    /\ runs' = runs + 1
    /\ lastRun' = "cached"
    /\ UNCHANGED <<fileState, cache, fetches, loads, successes>>
    /\ UNCHANGED <<cleanVars, inputVars, validVars, tableVars, formVars>>

\* a script run whose load_model() finds no cached handle: the body is
\* executed, and its return value is cached only if it returns
RunBody ==
    /\ runs < MaxRuns
    /\ cache = "empty"
    /\ \E outcome \in FetchOutcomes :
          LET r == load_model(fileState, outcome) IN
          /\ fileState' = r.file
          /\ fetches' = fetches + (IF r.fetched THEN 1 ELSE 0)
          /\ loads' = loads + (IF r.loaded THEN 1 ELSE 0)
          /\ successes' = successes + (IF r.result = "loaded" THEN 1 ELSE 0)
          /\ cache' = IF r.result = "loaded" THEN "handle" ELSE "empty"
          /\ lastRun' = r.result
    /\ runs' = runs + 1
    /\ UNCHANGED <<cleanVars, inputVars, validVars, tableVars, formVars>>

NextLoad == RunCached \/ RunBody

SpecLoad == InitLoad /\ [][NextLoad]_vars

\* C6 as stated: the fetch is attempted at most once in the process (a
\* failed fetch is not retried by a later run) and the artifact is
\* deserialised once
C6_FetchAndLoadOnce ==
    /\ fetches <= 1
    /\ successes <= 1
    /\ cache = "handle" => successes = 1

\* C6, amended: a fetch is attempted only by an execution of the body that
\* finds no cached handle and no file at model_path; the artifact is
\* deserialised only with a file at model_path; it is deserialised
\* successfully at most once, and from then on a run changes neither the
\* file, the cache nor the counts of fetches and deserialisations
C6_FetchOnlyWhenMissing ==
    [][/\ fetches' > fetches => (fileState = "absent" /\ cache = "empty")
       /\ loads' > loads => fileState' # "absent"
       /\ successes' <= 1
       /\ cache' = "handle" => successes' = 1
       /\ cache = "handle" =>
             UNCHANGED <<fileState, cache, fetches, loads, successes>>]_vars

\* a fetch failed, a later run fetched again and loaded the artifact, and a
\* run after that was served from the cache
C6_Witness ==
    /\ fetches = 2 /\ loads = 1 /\ successes = 1
    /\ cache = "handle" /\ lastRun = "cached"

(***************************************************************************)
(* The form: crop selection                                                *)
(***************************************************************************)
RECURSIVE UniqueFrom(_, _)
\* the distinct values of a column in order of first appearance
UniqueFrom(values, seen) ==
    IF values = <<>> THEN <<>>
    ELSE IF Head(values) \in seen THEN UniqueFrom(Tail(values), seen)
    ELSE <<Head(values)>> \o UniqueFrom(Tail(values), seen \cup {Head(values)})

RECURSIVE InsertStr(_, _)
InsertStr(v, sorted) ==
    IF sorted = <<>> THEN <<v>>
    ELSE IF StrLess(v, Head(sorted)) THEN <<v>> \o sorted
    ELSE <<Head(sorted)>> \o InsertStr(v, Tail(sorted))

RECURSIVE Sorted(_)
\* sorted(values)
Sorted(values) ==
    IF values = <<>> THEN <<>> ELSE InsertStr(Head(values), Sorted(Tail(values)))

RECURSIVE Column(_, _)
\* table[field].tolist()
Column(table, field) ==
    IF table = <<>> THEN <<>>
    ELSE <<Head(table)[field]>> \o Column(Tail(table), field)

\* crop_list = crop_info["Crop"].tolist()
crop_list(table) == Column(table, "Crop")

\* crop_types = sorted(crop_info["Crop_Type"].unique())
crop_types(table) == Sorted(UniqueFrom(Column(table, "Crop_Type"), {}))

RECURSIVE RowsOfType(_, _)
\* crop_info[crop_info["Crop_Type"] == selected_type]
RowsOfType(table, type) ==
    IF table = <<>> THEN <<>>
    ELSE (IF Head(table).Crop_Type = type THEN <<Head(table)>> ELSE <<>>)
         \o RowsOfType(Tail(table), type)

\* the crop list offered without the filter on the selected type
filtered_crops_Unfiltered(table, type) == Column(table, "Crop")

\* filtered_crops in the "Select Crop Type First" branch
filtered_crops(table, type) == Column(RowsOfType(table, type), "Crop")

RECURSIVE RowsOfCrop(_, _)
\* crop_info[crop_info["Crop"] == selected_crop]
RowsOfCrop(table, crop) ==
    IF table = <<>> THEN <<>>
    ELSE (IF Head(table).Crop = crop THEN <<Head(table)>> ELSE <<>>)
         \o RowsOfCrop(Tail(table), crop)

\* crop_info[crop_info["Crop"] == selected_crop]["Crop_Type"].values[0]
DetectedType(table, crop) == Column(RowsOfCrop(table, crop), "Crop_Type")[1]

Range(seq) == {seq[x] : x \in 1..Len(seq)}

\* what st.selectbox returns in a run: the value it held, while that is
\* still one of its options, or else its first option
SelectboxValues(options, held) == {options[1]} \cup ({held} \cap Range(options))

(***************************************************************************)
(* The form: advisory range messages                                       *)
(***************************************************************************)
\* the advisory messages without the test on high rainfall
AdvisoryWarnings_NoHighRain(n, p, k, ph, rain, temp) ==
    (IF n < 20 THEN {"N low"} ELSE IF n > 150 THEN {"N high"} ELSE {})
    \cup (IF p < 15 THEN {"P low"} ELSE IF p > 100 THEN {"P high"} ELSE {})
    \cup (IF k < 20 THEN {"K low"} ELSE IF k > 120 THEN {"K high"} ELSE {})
    \cup (IF ph < 55 THEN {"pH low"} ELSE IF ph > 75 THEN {"pH high"} ELSE {})
    \cup (IF rain < 300 THEN {"rainfall low"} ELSE {})
    \cup (IF temp < 15 THEN {"temperature low"}
          ELSE IF temp > 35 THEN {"temperature high"} ELSE {})

\* the st.warning calls of one script run, by field and direction
AdvisoryWarnings(n, p, k, ph, rain, temp) ==
    (IF n < 20 THEN {"N low"} ELSE IF n > 150 THEN {"N high"} ELSE {})
    \cup (IF p < 15 THEN {"P low"} ELSE IF p > 100 THEN {"P high"} ELSE {})
    \cup (IF k < 20 THEN {"K low"} ELSE IF k > 120 THEN {"K high"} ELSE {})
    \cup (IF ph < 55 THEN {"pH low"} ELSE IF ph > 75 THEN {"pH high"} ELSE {})
    \cup (IF rain < 300 THEN {"rainfall low"}
          ELSE IF rain > 1500 THEN {"rainfall high"} ELSE {})
    \cup (IF temp < 15 THEN {"temperature low"}
          ELSE IF temp > 35 THEN {"temperature high"} ELSE {})

\* the st.info calls of one script run (area is in tenths of a hectare)
AdvisoryInfos(ar) ==
    IF ar < 10 THEN {"area small"} ELSE IF ar > 100000 THEN {"area large"} ELSE {}

(***************************************************************************)
(* The Predict branch: feature vector                                      *)
(***************************************************************************)
\* array cells: a number, or the missing value NaN
Num(v) == [nan |-> FALSE, val |-> v]
NaN == [nan |-> TRUE, val |-> 0]

RECURSIVE Prefixed(_)
\* the column labels get_dummies(..., prefix="Crop") gives to categories
Prefixed(values) ==
    IF values = <<>> THEN <<>>
    ELSE <<<<"Crop_">> \o Head(values)>> \o Prefixed(Tail(values))

\* pd.get_dummies(series, prefix="Crop").columns: one column per distinct
\* value, in sorted order
DummyColumns(values) == Prefixed(Sorted(UniqueFrom(values, {})))

\* pd.DataFrame(columns=...).fillna(0): a frame with no row, so nothing to fill
EmptyFrame(columns) == [columns |-> columns, rows |-> <<>>]

\* frame.loc[0, col] = 1 for a column of the frame: row 0 is created, with
\* the missing value in every other column, if the frame has no row yet
SetLoc0(frame, col) ==
    IF frame.rows = <<>>
    THEN [frame EXCEPT !.rows =
            <<[x \in 1..Len(frame.columns) |->
                  IF frame.columns[x] = col THEN Num(1) ELSE NaN]>>]
    ELSE [frame EXCEPT !.rows[1] =
            [x \in 1..Len(frame.columns) |->
                  IF frame.columns[x] = col THEN Num(1) ELSE frame.rows[1][x]]]

RECURSIVE FillCropVector(_, _)
\* for col in crop_dummy.columns: if col in crop_vector.columns: ...
FillCropVector(frame, cols) ==
    IF cols = <<>> THEN frame
    ELSE FillCropVector(IF Head(cols) \in Range(frame.columns)
                        THEN SetLoc0(frame, Head(cols)) ELSE frame,
                        Tail(cols))

\* crop_vector after the loop
crop_vector(table, crop) ==
    FillCropVector(EmptyFrame(DummyColumns(Column(table, "Crop"))),
                   DummyColumns(<<crop>>))

\* np.concatenate((a, b), axis=1): the arrays must have the same number of
\* rows
Concatenate(a, b) ==
    IF Len(a) # Len(b)
    THEN [raised |-> "ValueError", array |-> <<>>]
    ELSE [raised |-> "none", array |-> [x \in 1..Len(a) |-> a[x] \o b[x]]]

\* input_features, or the error raised while building it
BuildFeatures(table, crop, n, p, k, ph, rain, temp, ar) ==
    Concatenate(<<<<Num(n), Num(p), Num(k), Num(ph), Num(rain), Num(temp),
                    Num(ar)>>>>,
                crop_vector(table, crop).rows)

(***************************************************************************)
(* The deserialised artifact                                               *)
(***************************************************************************)
Orders(columns) ==
    {o \in [1..Len(columns) -> Range(columns)] :
        \A x, y \in 1..Len(columns) : x # y => o[x] # o[y]}

\* what joblib.load can return: the predictor itself, or the dict with the
\* predictor under 'model' and the crop columns of the training frame, in
\* training order, under 'columns'
Artifacts(table) ==
    {[kind |-> "predictor", columns |-> <<>>]}
    \cup {[kind |-> "bundle", columns |-> o] :
             o \in Orders(DummyColumns(Column(table, "Crop")))}

(***************************************************************************)
(* The Predict button handler                                              *)
(***************************************************************************)
\* the body of "if st.button(...)": the gate, then either the issues are
\* shown or the feature vector is built and model.predict is called.  A dict
\* has no predict attribute, and an error ends the run where it is raised.
PredictHandler ==
    LET found == is_input_valid(N, P, K, pH, rainfall, temperature, area)
        built == BuildFeatures(crop_info, selected_crop,
                               N, P, K, pH, rainfall, temperature, area)
    IN  /\ pressed' = TRUE
        /\ issues' = found
        /\ shown' = found
        /\ IF found # <<>>
           THEN /\ input_features' = <<>>
                /\ predictCalls' = 0
                /\ predictedBy' = "none"
                /\ raised' = "none"
           ELSE IF built.raised # "none"
           THEN /\ input_features' = <<>>
                /\ predictCalls' = 0
                /\ predictedBy' = "none"
                /\ raised' = built.raised
           ELSE /\ input_features' = built.array
                /\ IF model.kind = "predictor"
                   THEN /\ predictCalls' = 1
                        /\ predictedBy' = "artifact"
                        /\ raised' = "none"
                   ELSE /\ predictCalls' = 0
                        /\ predictedBy' = "none"
                        /\ raised' = "AttributeError"

\* a run in which the button is not pressed shows none of the handler's
\* output
NoPredict ==
    /\ pressed' = FALSE
    /\ issues' = <<>>
    /\ shown' = <<>>
    /\ input_features' = <<>>
    /\ predictCalls' = 0
    /\ predictedBy' = "none"
    /\ raised' = "none"

(***************************************************************************)
(* Spec: the form, one action per user interaction (one script run each)   *)
(***************************************************************************)
\* the files the form is started on: one with three crops of two types,
\* given out of order and with a repeated crop, and one with a single crop
FormFiles ==
    {<<[Crop |-> <<"b">>, Crop_Type |-> <<"b">>],
       [Crop |-> <<"a">>, Crop_Type |-> <<" ", "C">>],
       [Crop |-> <<"A", " ">>, Crop_Type |-> <<"b">>],
       [Crop |-> <<"b", "NL", "a">>, Crop_Type |-> <<"c">>]>>,
     <<[Crop |-> <<"a_acute">>, Crop_Type |-> <<"c">>]>>}

\* values of the number widgets: the low end of each widget's range, a
\* value outside the recommended range but inside the gate, the default,
\* and the high end wherever the gate has an upper threshold
WidgetN == {0, 15, 70}
WidgetP == {0, 10, 40}
WidgetK == {0, 10, 40}
WidgetPH == {30, 50, 65, 90}
WidgetRainfall == {0, 100, 700, 3500}
WidgetTemperature == {0, 12, 26, 50}
WidgetArea == {1, 10000}

TypeFirst == "Select Crop Type First"
CropFirst == "Select Crop First"

Init ==
    /\ csv \in FormFiles
    /\ crop_info = load_crop_info(csv)
    /\ tablePc = "loaded"
    /\ model \in Artifacts(crop_info)
    /\ selection_mode = TypeFirst
    /\ selected_type = crop_types(crop_info)[1]
    /\ selected_crop = filtered_crops(crop_info, selected_type)[1]
    /\ N = 70 /\ P = 40 /\ K = 40 /\ pH = 65
    /\ rainfall = 700 /\ temperature = 26 /\ area = 10000
    /\ warnings = AdvisoryWarnings(N, P, K, pH, rainfall, temperature)
    /\ infos = AdvisoryInfos(area)
    /\ pressed = FALSE /\ shown = <<>> /\ input_features = <<>>
    /\ predictCalls = 0 /\ predictedBy = "none" /\ raised = "none"
    /\ issues = <<>> /\ validPc = "off"
    /\ formPc = "form"
    /\ CleanIdle
    /\ LoadIdle

\* the radio is set to the other mode: the selectboxes of the new branch are
\* rendered
SwitchMode ==
    /\ formPc = "form"
    /\ \E m \in {TypeFirst, CropFirst} :
          /\ m # selection_mode
          /\ selection_mode' = m
          /\ IF m = TypeFirst
             THEN /\ selected_type' \in
                        SelectboxValues(crop_types(crop_info), selected_type)
                  /\ selected_crop' \in
                        SelectboxValues(filtered_crops(crop_info, selected_type'),
                                        selected_crop)
             ELSE /\ selected_crop' \in
                        SelectboxValues(crop_list(crop_info), selected_crop)
                  /\ selected_type' = DetectedType(crop_info, selected_crop')
    /\ NoPredict
    /\ UNCHANGED <<model, warnings, infos, formPc, validPc>>
    /\ UNCHANGED <<cleanVars, inputVars, tableVars, loadVars>>

\* another crop type is chosen ("Select Crop Type First")
SelectType ==
    /\ formPc = "form"
    /\ selection_mode = TypeFirst
    /\ \E t \in Range(crop_types(crop_info)) :
          /\ t # selected_type
          /\ selected_type' = t
          /\ selected_crop' \in
                SelectboxValues(filtered_crops(crop_info, t), selected_crop)
    /\ NoPredict
    /\ UNCHANGED <<model, selection_mode, warnings, infos, formPc, validPc>>
    /\ UNCHANGED <<cleanVars, inputVars, tableVars, loadVars>>

\* another crop is chosen in the crop selectbox of the current mode
SelectCrop ==
    /\ formPc = "form"
    /\ IF selection_mode = TypeFirst
       THEN /\ \E c \in Range(filtered_crops(crop_info, selected_type)) :
                  c # selected_crop /\ selected_crop' = c
            /\ UNCHANGED selected_type
       ELSE /\ \E c \in Range(crop_list(crop_info)) :
                  c # selected_crop /\ selected_crop' = c
            /\ selected_type' = DetectedType(crop_info, selected_crop')
    /\ NoPredict
    /\ UNCHANGED <<model, selection_mode, warnings, infos, formPc, validPc>>
    /\ UNCHANGED <<cleanVars, inputVars, tableVars, loadVars>>

\* the run after a number widget changed: every range message is recomputed
Rerun ==
    /\ warnings' = AdvisoryWarnings(N', P', K', pH', rainfall', temperature')
    /\ infos' = AdvisoryInfos(area')
    /\ NoPredict
    /\ UNCHANGED <<model, selectionVars, formPc, validPc>>
    /\ UNCHANGED <<cleanVars, tableVars, loadVars>>

InputN ==
    /\ formPc = "form"
    /\ \E v \in WidgetN : v # N /\ N' = v
    /\ UNCHANGED <<P, K, pH, rainfall, temperature, area>>
    /\ Rerun

InputP ==
    /\ formPc = "form"
    /\ \E v \in WidgetP : v # P /\ P' = v
    /\ UNCHANGED <<N, K, pH, rainfall, temperature, area>>
    /\ Rerun

InputK ==
    /\ formPc = "form"
    /\ \E v \in WidgetK : v # K /\ K' = v
    /\ UNCHANGED <<N, P, pH, rainfall, temperature, area>>
    /\ Rerun

InputPH ==
    /\ formPc = "form"
    /\ \E v \in WidgetPH : v # pH /\ pH' = v
    /\ UNCHANGED <<N, P, K, rainfall, temperature, area>>
    /\ Rerun

InputRainfall ==
    /\ formPc = "form"
    /\ \E v \in WidgetRainfall : v # rainfall /\ rainfall' = v
    /\ UNCHANGED <<N, P, K, pH, temperature, area>>
    /\ Rerun

InputTemperature ==
    /\ formPc = "form"
    /\ \E v \in WidgetTemperature : v # temperature /\ temperature' = v
    /\ UNCHANGED <<N, P, K, pH, rainfall, area>>
    /\ Rerun

InputArea ==
    /\ formPc = "form"
    /\ \E v \in WidgetArea : v # area /\ area' = v
    /\ UNCHANGED <<N, P, K, pH, rainfall, temperature>>
    /\ Rerun

\* the Predict button is pressed
PressPredict ==
    /\ formPc = "form"
    /\ PredictHandler
    /\ UNCHANGED <<model, selectionVars, warnings, infos, formPc, validPc>>
    /\ UNCHANGED <<cleanVars, inputVars, tableVars, loadVars>>

Next ==
    \/ SwitchMode
    \/ SelectType
    \/ SelectCrop
    \/ InputN
    \/ InputP
    \/ InputK
    \/ InputPH
    \/ InputRainfall
    \/ InputTemperature
    \/ InputArea
    \/ PressPredict

Spec == Init /\ [][Next]_vars

\* the position of v in seq (0 if absent)
IndexOf(v, seq) ==
    IF v \in Range(seq) THEN CHOOSE x \in 1..Len(seq) : seq[x] = v ELSE 0

\* C, the number of distinct crop names of the reference table
UniverseSize == Cardinality(Range(crop_list(crop_info)))

KnownCrop == selected_crop \in Range(crop_list(crop_info))

\* the crop segment of the one row of input_features
CropSegment == SubSeq(input_features[1], 8, Len(input_features[1]))

\* C3: a press of Predict with a non-empty issue list shows every issue and
\* does not call model.predict; a press with an empty issue list builds the
\* feature vector and calls model.predict exactly once, whatever advisory
\* messages are on display
C3_GateDecidesPredict ==
    pressed =>
        /\ issues = is_input_valid(N, P, K, pH, rainfall, temperature, area)
        /\ issues # <<>> => (predictCalls = 0 /\ shown = issues)
        /\ issues = <<>> => (Len(input_features) = 1 /\ predictCalls = 1)

\* the issue is on display together with the advisory warning of a field
\* that caused it
WarnedIssue(i) ==
    CASE i = TempLow -> "temperature low" \in warnings
      [] i = TempHigh -> "temperature high" \in warnings
      [] i = PhOut -> (pH < 45 /\ "pH low" \in warnings)
                      \/ (pH > 90 /\ "pH high" \in warnings)
      [] i = RainLow -> "rainfall low" \in warnings
      [] i = RainHigh -> "rainfall high" \in warnings
      [] i = NutrientsLow -> \/ (N < 10 /\ "N low" \in warnings)
                             \/ (P < 5 /\ "P low" \in warnings)
                             \/ (K < 5 /\ "K low" \in warnings)
      [] OTHER -> FALSE

\* C9: with the values the number widgets admit, a rejection by the gate
\* always comes with an advisory warning for a field that caused it, and
\* neither the area issue nor a rejection for pH above 9 is ever produced
C9_RejectionIsWarned ==
    (pressed /\ issues # <<>>) =>
        /\ \E x \in 1..Len(issues) : WarnedIssue(issues[x])
        /\ ~Reported(AreaSmall)
        /\ Reported(PhOut) => pH < 45

\* Predict was pressed with rainfall at the top of its widget range and
\* everything else at its default: the one issue is the rainfall one
C9_Witness ==
    /\ pressed
    /\ rainfall = 3500 /\ temperature = 26 /\ pH = 65
    /\ N = 70 /\ P = 40 /\ K = 40
    /\ issues = <<RainHigh>>
    /\ warnings = {"rainfall high"}

\* C10: when Predict is pressed the selected crop is a crop of the reference
\* table and selected_type is the type the table records for it, in both
\* selection modes
C10_SelectionInTable ==
    pressed =>
        \E x \in 1..Len(crop_info) :
            /\ crop_info[x].Crop = selected_crop
            /\ crop_info[x].Crop_Type = selected_type

\* Predict was pressed in "Select Crop First" mode, after a mode switch and
\* a crop choice, on the third crop of the three-crop table
C10_Witness ==
    /\ pressed
    /\ selection_mode = CropFirst
    /\ Len(crop_info) = 3
    /\ selected_crop = <<"B", "a">>
    /\ selected_type = <<"c">>

(***************************************************************************)
(* SpecPredict: the Predict branch on any selected crop, in or out of the  *)
(* reference table                                                         *)
(***************************************************************************)
\* names that are not in any of the tables
UnknownCrops == {<<"C">>, <<"A", "b">>}

InitPredict ==
    /\ csv \in FormFiles
    /\ crop_info = load_crop_info(csv)
    /\ tablePc = "loaded"
    /\ model \in Artifacts(crop_info)
    /\ selection_mode = "off"
    /\ selected_type = <<>>
    /\ selected_crop \in Range(crop_list(crop_info)) \cup UnknownCrops
    /\ N \in WidgetN /\ P \in WidgetP /\ K \in WidgetK /\ pH \in WidgetPH
    /\ rainfall \in WidgetRainfall /\ temperature \in WidgetTemperature
    /\ area \in WidgetArea
    /\ warnings = {} /\ infos = {}
    /\ pressed = FALSE /\ shown = <<>> /\ input_features = <<>>
    /\ predictCalls = 0 /\ predictedBy = "none" /\ raised = "none"
    /\ issues = <<>> /\ validPc = "off"
    /\ formPc = "branch"
    /\ CleanIdle
    /\ LoadIdle

RunPredictBranch ==
    /\ formPc = "branch"
    /\ PredictHandler
    /\ formPc' = "done"
    /\ UNCHANGED <<model, selectionVars, warnings, infos, validPc>>
    /\ UNCHANGED <<cleanVars, inputVars, tableVars, loadVars>>

NextPredict == RunPredictBranch

SpecPredict == InitPredict /\ [][NextPredict]_vars

\* C1: for a crop of the table and inputs that pass the gate, the feature
\* vector is one row of length 7 + C, starting with N, P, K, pH, rainfall,
\* temperature, area, whose crop segment is 1 at one position and 0 at every
\* other
C1_OneHotVector ==
    (formPc = "done" /\ issues = <<>> /\ KnownCrop) =>
        /\ Len(input_features) = 1
        /\ Len(input_features[1]) = 7 + UniverseSize
        /\ SubSeq(input_features[1], 1, 7)
              = <<Num(N), Num(P), Num(K), Num(pH), Num(rainfall),
                  Num(temperature), Num(area)>>
        /\ \E x \in 1..Len(CropSegment) :
              /\ CropSegment[x] = Num(1)
              /\ \A y \in 1..Len(CropSegment) :
                    y # x => CropSegment[y] = Num(0)

\* C2: for a crop that is not in the table and inputs that pass the gate,
\* no error is raised, the vector has length 7 + C with an all-zero crop
\* segment, and model.predict is called once on it
C2_UnknownCropAllZero ==
    (formPc = "done" /\ issues = <<>> /\ ~KnownCrop) =>
        /\ raised = "none"
        /\ Len(input_features) = 1
        /\ Len(input_features[1]) = 7 + UniverseSize
        /\ \A y \in 1..Len(CropSegment) : CropSegment[y] = Num(0)
        /\ predictCalls = 1

\* C7: when the artifact is the dict with 'model' and 'columns', the
\* bundled predictor makes the prediction and the indicator 1 sits at the
\* crop's position in the recorded column order
C7_RecordedOrder ==
    (formPc = "done" /\ issues = <<>> /\ KnownCrop /\ model.kind = "bundle") =>
        /\ predictedBy = "bundled"
        /\ Len(input_features) = 1
        /\ input_features[1][7 + IndexOf(<<"Crop_">> \o selected_crop,
                                         model.columns)] = Num(1)

(***************************************************************************)
(* Bounded input text                                                      *)
(***************************************************************************)
StringsUpTo(n) == UNION {[1..k -> Alphabet] : k \in 0..n}

(***************************************************************************)
(* SpecClean: clean_crop_name on one name, then on its own result          *)
(***************************************************************************)
InitClean ==
    /\ name \in StringsUpTo(MaxLen)
    /\ cleaned = <<>>
    /\ recleaned = <<>>
    /\ cleanPc = "raw"
    /\ InputsIdle
    /\ ValidIdle
    /\ TableIdle
    /\ LoadIdle
    /\ FormIdle

Clean ==
    /\ cleanPc = "raw"
    /\ cleaned' = clean_crop_name(name)
    /\ cleanPc' = "cleaned"
    /\ UNCHANGED <<name, recleaned, inputVars, validVars, tableVars, loadVars,
                   formVars>>

CleanAgain ==
    /\ cleanPc = "cleaned"
    /\ recleaned' = clean_crop_name(cleaned)
    /\ cleanPc' = "recleaned"
    /\ UNCHANGED <<name, cleaned, inputVars, validVars, tableVars, loadVars,
                   formVars>>

NextClean == Clean \/ CleanAgain

SpecClean == InitClean /\ [][NextClean]_vars

\* C8: clean_crop_name is idempotent: cleaning a cleaned name changes nothing
C8_Idempotent == cleanPc = "recleaned" => recleaned = cleaned

\* a name with a tab, a decomposable letter and a second word start has been
\* cleaned twice
C8_Witness ==
    /\ cleanPc = "recleaned"
    /\ name = <<"TAB", "a_acute", "a">>
    /\ cleaned = <<"A", "acute", "A">>

====
